---- MODULE Spec2Model ----
(***************************************************************************)
(* repmgrd.c: the replication manager daemon of a standby node.            *)
(*                                                                         *)
(* The model follows one daemon through MonitorCheck(): MonitorExecute()   *)
(* every tick, the bounded reconnect, the manual re-discovery, the         *)
(* election do_failover(), and the libpq connection state the code         *)
(* observes through PQstatus/PQisBusy/PQexec/PQsendQuery/PQreset.          *)
(* Specification Spec is the single daemon; SpecCluster runs do_failover   *)
(* on every survivor of a lost primary.                                    *)
(***************************************************************************)
EXTENDS Integers, Sequences, FiniteSets, TLC

VARIABLES
    pc,                 \* position of the daemon in MonitorCheck/MonitorExecute/do_failover
    exitStatus,         \* how the process ended ("none" while running)
    failover,           \* local_options.failover
    myLocalConn,        \* state of the handle myLocalConn
    primaryConn,        \* state of the handle primaryConn
    primary_node,       \* primary_options.node
    connection_retries, \* loop counter of MonitorExecute
    localStandby,       \* database side: the local node is still in recovery
    inflight,           \* primary side: inserts of the daemon not yet finished on primaryConn's session
    tickLog,            \* what the current tick has done so far, in order
    busyAtStart,        \* PQisBusy(primaryConn) held on an OK connection when the tick began
    fo,                 \* locals of do_failover
    peers,              \* the listed peers as the election found them
    cluster,            \* survivors of a lost primary (SpecCluster only)
    sig,                \* interrupts delivered to the daemon and what their cleanup met
    wal,                \* log positions of the databases and what the tick read and recorded
    reg,                \* the node table as the primary and the local standby hold it
    conv                \* a call of walLocationToBytes(): its argument and its result

vars == <<pc, exitStatus, failover, myLocalConn, primaryConn, primary_node,
          connection_retries, localStandby, inflight, tickLog, busyAtStart,
          fo, peers, cluster, sig, wal, reg, conv>>

-----------------------------------------------------------------------------
(* Bounds of the model *)

\* largest number of peer rows the peer listing returns to the monitoring daemon (Spec)
MaxPeers == 1
\* largest number of peer rows the peer listing returns in SpecElection
MaxListed == 5
\* largest segment id of a log position
MaxXlogId == 1
\* largest record offset of a log position
MaxXrecoff == 1
\* largest number of listed peers that accept a connection in SpecElection
MaxConnected == 2
\* number of surviving standbys in SpecCluster
NumSurvivors == 2
\* largest number of interrupts delivered to the daemon in SpecSignal
MaxSignals == 2
\* largest number of runs of checkNodeConfiguration() in SpecRegister
MaxRuns == 3

-----------------------------------------------------------------------------
(* Program constants *)

\* for (connection_retries = 0; connection_retries < 15; ...)
ReconnectAttempts == 15
\* for (connection_retries = 0; connection_retries < 6; ...)
ManualAttempts == 6
\* nodeInfo nodes[50];
NodesCapacity == 50
\* int myLocalId = -1; never assigned afterwards
myLocalId == 0 - 1

\* node ids: the listed peers, the primary the daemon started with, the local
\* node (local_options.node)
PeerIds == 1 .. (MaxListed + MaxPeers)
OldPrimary == MaxListed + MaxPeers + 1
local_options_node == MaxListed + MaxPeers + 2
\* a node id found in memory that was never written
GarbageId == MaxListed + MaxPeers + 3

-----------------------------------------------------------------------------
(* Log positions (XLogRecPtr) and their text *)

LSNs == [xlogid : 0 .. MaxXlogId, xrecoff : 0 .. MaxXrecoff]

\* A text as sscanf("%X/%X") sees it: n fields convert (2 = well formed).
WellFormed(l) == [n |-> 2, xlogid |-> l.xlogid, xrecoff |-> l.xrecoff]
Malformed == [n |-> 0, xlogid |-> 0, xrecoff |-> 0]
LsnTexts == {WellFormed(l) : l \in LSNs} \cup {Malformed}

\* sscanf(text, "%X/%X", &uxlogid, &uxrecoff): the return value and the two
\* variables afterwards; a field that does not convert is left as it was.
Sscanf(text, ux) ==
    [ret |-> text.n,
     ux  |-> [xlogid  |-> IF text.n >= 1 THEN text.xlogid ELSE ux.xlogid,
              xrecoff |-> IF text.n >= 2 THEN text.xrecoff ELSE ux.xrecoff]]

\* XLByteLT(a, b) of access/xlogdefs.h
XLByteLT(a, b) ==
    \/ a.xlogid < b.xlogid
    \/ (a.xlogid = b.xlogid /\ a.xrecoff < b.xrecoff)

-----------------------------------------------------------------------------
(* walLocationToBytes(): 32-bit fields, 64-bit arithmetic *)

\* Numbers wider than the checker's integers are kept as digits of 16 bits,
\* lowest first: 2 digits for an unsigned int, 4 for a long long, a fifth
\* digit for what does not fit 64 bits.
Base == 2 ^ 16

\* The unsigned int with upper half hi and lower half lo.
Word(hi, lo) == <<lo, hi>>

Zero64 == <<0, 0, 0, 0>>

\* "(long long) xlogid": the value widened.
Wide(w) == <<w[1], w[2], 0, 0, 0>>

RECURSIVE MulCarry(_, _, _)
MulCarry(x, c, k) ==
    IF k = 0 THEN 0 ELSE (x[k] * c + MulCarry(x, c, k - 1)) \div Base

\* x * c for a small factor c, as a number
MulSmall(x, c) == [k \in 1 .. 5 |-> (x[k] * c + MulCarry(x, c, k - 1)) % Base]

RECURSIVE AddCarry(_, _, _)
AddCarry(x, y, k) ==
    IF k = 0 THEN 0 ELSE (x[k] + y[k] + AddCarry(x, y, k - 1)) \div Base

\* x + y, as a number
Add(x, y) == [k \in 1 .. 5 |-> (x[k] + y[k] + AddCarry(x, y, k - 1)) % Base]

\* The value is one a long long can hold (at most 2^63 - 1).
FitsLongLong(x) == x[5] = 0 /\ x[4] < Base \div 2

\* The texts handed to walLocationToBytes(): n fields convert, the fields
\* are unsigned ints.
SegmentIds ==
    {Word(0, 0), Word(0, 1), Word(0, 2), Word(0, 255), Word(32767, 65535),
     Word(32896, 32896), Word(32896, 32897), Word(65535, 65535)}

Offsets ==
    {Word(0, 0), Word(0, 1), Word(32768, 0), Word(41136, 49360),
     Word(65279, 65535), Word(65535, 65535)}

WideTexts ==
    [n : {2}, xlogid : SegmentIds, xrecoff : Offsets]
    \cup {[n |-> 0, xlogid |-> Word(0, 0), xrecoff |-> Word(0, 0)],
          [n |-> 1, xlogid |-> Word(0, 1), xrecoff |-> Word(0, 0)]}

\* walLocationToBytes(wal_location):
\*   return (( (long long) xlogid * 16 * 1024 * 1024 * 255) + xrecoff);
\* evaluated left to right in long long.  A product or the sum above 2^63 - 1
\* is a signed overflow: the build either wraps (ub = "wrap"), which after
\* the conversion to unsigned long long is the value modulo 2^64, or traps.
walLocationToBytes(wal_location, ub) ==
    IF wal_location.n # 2
    THEN [overflow |-> FALSE, trapped |-> FALSE, bytes |-> Zero64]
    ELSE LET a == MulSmall(Wide(wal_location.xlogid), 16)
             b == MulSmall(a, 1024)
             c == MulSmall(b, 1024)
             d == MulSmall(c, 255)
             e == Add(d, Wide(wal_location.xrecoff))
             fits == \A v \in {a, b, c, d, e} : FitsLongLong(v)
         IN  IF fits \/ ub = "wrap"
             THEN [overflow |-> ~fits, trapped |-> FALSE,
                   bytes |-> [k \in 1 .. 4 |-> e[k]]]
             ELSE [overflow |-> TRUE, trapped |-> TRUE, bytes |-> Zero64]

RECURSIVE Borrow(_, _, _)
Borrow(x, y, k) ==
    IF k = 0 THEN 0
    ELSE IF x[k] - y[k] - Borrow(x, y, k - 1) < 0 THEN 1 ELSE 0

\* x - y in unsigned long long (modulo 2^64)
Sub64(x, y) ==
    [k \in 1 .. 4 |-> (x[k] - y[k] - Borrow(x, y, k - 1) + Base) % Base]

\* What "%lld" prints for the unsigned long long x is below zero.
PrintsNegative(x) == x[4] >= Base \div 2

\* Positions the databases go through, in increasing order.
LagPositions ==
    <<[xlogid |-> Word(0, 0), xrecoff |-> Word(0, 0)],
      [xlogid |-> Word(0, 0), xrecoff |-> Word(65279, 65535)],
      [xlogid |-> Word(0, 1), xrecoff |-> Word(0, 0)],
      [xlogid |-> Word(32896, 32897), xrecoff |-> Word(0, 0)]>>

\* The text pg_*_xlog_*location() gives for the i-th position.
LagText(i) ==
    [n |-> 2, xlogid |-> LagPositions[i].xlogid, xrecoff |-> LagPositions[i].xrecoff]

-----------------------------------------------------------------------------
(* Connection handles as libpq shows them to the daemon *)

NoNode == myLocalId - 1
NullConn == [st |-> "NULL", busy |-> FALSE, node |-> NoNode]
Conn(st, busy, node) == [st |-> st, busy |-> busy, node |-> node]

PQstatus(conn) == IF conn.st = "OK" THEN "CONNECTION_OK" ELSE "CONNECTION_BAD"

PQisBusy(conn) == IF conn.st = "OK" /\ conn.busy THEN 1 ELSE 0

\* PQreset(primaryConn): drops the session and opens a new one; ok says
\* whether the new session came up.
PQreset(conn, ok) ==
    IF conn.st \in {"NULL", "FREED"} THEN conn
    ELSE [conn EXCEPT !.st = IF ok THEN "OK" ELSE "BAD", !.busy = FALSE]

\* PQfinish(conn)
PQfinish(conn) == [conn EXCEPT !.st = "FREED", !.busy = FALSE]

Log(event) == Append(tickLog, event)

\* CancelQuery(): PQcancel on primaryConn; ok says whether the primary
\* took the request.  n is the number of inserts the primary is running.
CancelQuery(n, ok) == IF ok THEN 0 ELSE n

\* What CancelQuery() leaves in the tick's log.
CancelLog(ok) == IF ok THEN <<"cancel">> ELSE <<"cancel", "cancel_failed">>

\* The position query answered without waiting for the command in progress.
PQexecPrimary_NoWait(conn, n, outcome) ==
    IF conn.st # "OK" THEN [conn |-> conn, inflight |-> n, tuples_ok |-> FALSE]
    ELSE IF outcome = "lost"
    THEN [conn |-> [conn EXCEPT !.st = "BAD", !.busy = FALSE], inflight |-> 0,
          tuples_ok |-> FALSE]
    ELSE [conn |-> [conn EXCEPT !.busy = FALSE], inflight |-> n,
          tuples_ok |-> (outcome = "ok")]

\* PQexec(primaryConn, ...): libpq first waits for and discards the result of
\* a command still in progress on the connection, then runs the query.
\* outcome: "ok" = PGRES_TUPLES_OK, "error" = the query failed, "lost" = the
\* session broke.  Gives the handle and the primary's count of inserts.
PQexecPrimary(conn, n, outcome) ==
    IF conn.st # "OK" THEN [conn |-> conn, inflight |-> n, tuples_ok |-> FALSE]
    ELSE IF outcome = "lost"
    THEN [conn |-> [conn EXCEPT !.st = "BAD", !.busy = FALSE], inflight |-> 0,
          tuples_ok |-> FALSE]
    ELSE [conn |-> [conn EXCEPT !.busy = FALSE], inflight |-> 0,
          tuples_ok |-> (outcome = "ok")]

\* PQsendQuery(primaryConn, ...): refused (0) on a connection that is not OK
\* or that has a command in progress; otherwise the insert is on its way.
PQsendQuery(conn, n, outcome) ==
    IF conn.st # "OK" \/ conn.busy \/ outcome = "refused"
    THEN [conn |-> conn, inflight |-> n, ret |-> 0]
    ELSE IF outcome = "lost"
    THEN [conn |-> [conn EXCEPT !.st = "BAD"], inflight |-> 0, ret |-> 0]
    ELSE [conn |-> [conn EXCEPT !.busy = TRUE], inflight |-> n + 1, ret |-> 1]

\* is_standby(conn) of dbutils.c
is_standby(conn) == localStandby

\* getMasterConnection() of dbutils.c: an OK connection to the node that is
\* primary now and its id, or NULL.
getMasterConnection(found, node) ==
    IF found THEN [conn |-> Conn("OK", FALSE, node), master_id |-> node]
    ELSE [conn |-> NullConn, master_id |-> primary_node]


-----------------------------------------------------------------------------
(* do_failover: the probe loop, the quorum gate and the selection *)

ZeroLsn == [xlogid |-> 0, xrecoff |-> 0]

\* What one listed peer answers: conn = establishDBConnection gave an OK
\* connection, query = repmgr_get_last_standby_location() gave PGRES_TUPLES_OK,
\* text = the location it reported.
PeerResponses ==
    {[conn |-> FALSE, query |-> FALSE, text |-> Malformed],
     [conn |-> TRUE, query |-> FALSE, text |-> Malformed]}
    \cup {[conn |-> TRUE, query |-> TRUE, text |-> t] : t \in LsnTexts}

Reachable(p) == p.conn /\ p.query

NumReachable(ps) == Cardinality({k \in 1 .. Len(ps) : Reachable(ps[k])})

\* The rows of the peer listing (res1) with what each peer will answer: at
\* most maxRows rows, at most maxConn of them accepting a connection.
PeerListsOf(maxRows, maxConn) ==
    {[k \in 1 .. n |->
         IF k \in S
         THEN LET r == a[Cardinality({j \in S : j <= k})]
              IN  [id |-> k, conn |-> TRUE, query |-> r.query, text |-> r.text]
         ELSE [id |-> k, conn |-> FALSE, query |-> FALSE, text |-> Malformed]] :
       n \in 0 .. maxRows,
       S \in {T \in SUBSET (1 .. maxRows) : Cardinality(T) <= maxConn},
       a \in [1 .. maxConn -> {p \in PeerResponses : p.conn}]}

PeerLists == PeerListsOf(MaxPeers, MaxPeers)

ElectionPeerLists == PeerListsOf(MaxListed, MaxConnected)

\* nodes[i] of a peer that was skipped: only is_ready was written.
NotReady == [nodeId |-> GarbageId, xlog_location |-> ZeroLsn, is_ready |-> FALSE]

\* What an uninitialised nodes[] slot can hold.
GarbageNodes ==
    {NotReady} \cup
    [nodeId : {myLocalId, GarbageId}, xlog_location : LSNs, is_ready : {TRUE}]

\* One pass of the loop "for (i = 0; i < PQntuples(res1); i++)" for row
\* i = k - 1.  res2 holds one row, so PQgetvalue(res2, i, 0) is the peer's
\* text only for i = 0 and NULL afterwards; sscanf on NULL either faults
\* (nullFaults) or converts nothing.
ProbeStep(st, k, p, nullFaults) ==
    IF st.crashed THEN st
    ELSE IF ~p.conn THEN
        [st EXCEPT !.nodes = Append(@, NotReady), !.i = k]
    ELSE IF ~p.query THEN
        [st EXCEPT !.nodes = Append(@, NotReady), !.i = k, !.res2 = "freed"]
    ELSE IF k > 1 /\ nullFaults THEN
        [st EXCEPT !.visible_nodes = @ + 1, !.crashed = TRUE, !.i = k - 1,
                   !.res2 = "valid"]
    ELSE
        LET got == IF k = 1 THEN Sscanf(p.text, st.ux)
                   ELSE [ret |-> 0, ux |-> st.ux]
        IN  [st EXCEPT !.visible_nodes = @ + 1,
                       !.ux = got.ux,
                       !.nodes = Append(@, [nodeId |-> p.id,
                                            xlog_location |-> got.ux,
                                            is_ready |-> TRUE]),
                       !.i = k,
                       !.res2 = "freed"]

RECURSIVE ProbeLoop(_, _, _, _)
ProbeLoop(st, k, ps, nullFaults) ==
    IF k > Len(ps) THEN st
    ELSE ProbeLoop(ProbeStep(st, k, ps[k], nullFaults), k + 1, ps, nullFaults)

\* "for (i = 0; i <= numelm; i++)": slot numelm was never written in this
\* election and holds whatever was there (junk).
RECURSIVE SelectLoop(_, _, _, _)
SelectLoop(best, i, nodes, junk) ==
    IF i > Len(nodes) THEN best
    ELSE LET node == IF i < Len(nodes) THEN nodes[i + 1] ELSE junk
             next == IF node.is_ready
                        /\ XLByteLT(best.xlog_location, node.xlog_location)
                     THEN [nodeId |-> node.nodeId,
                           xlog_location |-> node.xlog_location,
                           is_ready |-> node.is_ready]
                     ELSE best
         IN  SelectLoop(next, i + 1, nodes, junk)

\* The indices i at which "for (i = 0; i <= numelm; i++)" reads nodes[i].
SelectReads(numelm) == 0 .. numelm

\* The locals of do_failover() outside an election.
NoElection ==
    [ran |-> FALSE, local |-> Malformed, published |-> Malformed,
     pub_ok |-> FALSE, reads |-> {},
     total_nodes |-> 1, visible_nodes |-> 1, numelm |-> 0, nodes |-> <<>>,
     res2 |-> "unset", best_nodeId |-> GarbageId]

\* "if (visible_nodes < (total_nodes / 2))"
QuorumFails(visible_nodes, total_nodes) == visible_nodes < (total_nodes \div 2)

-----------------------------------------------------------------------------
\* No interrupt was delivered yet.
NoSignal == [delivered |-> 0, double_close |-> FALSE, use_after_close |-> FALSE]

\* No sample was recorded yet.
NoSample == [sent |-> FALSE, behind_receive |-> Zero64, behind_apply |-> Zero64]

\* The databases at the first position; no position was read or recorded
\* yet.  primary, receive, apply: where the primary's log, the standby's
\* received log and its replayed log are; last_*: the texts MonitorExecute()
\* holds (0 = not read in this tick).
NoWal ==
    [primary |-> 1, receive |-> 1, apply |-> 1,
     last_wal_primary_location |-> 0, last_wal_standby_received |-> 0,
     last_wal_standby_applied |-> 0, recorded |-> NoSample]

\* checkNodeConfiguration() is not running.
NoReg == <<>>

\* walLocationToBytes() is not running.
NoConv == <<>>

Init ==
    /\ pc = "sleep"
    /\ exitStatus = "none"
    /\ failover \in {"MANUAL_FAILOVER", "AUTOMATIC_FAILOVER"}
    /\ myLocalConn = Conn("OK", FALSE, local_options_node)
    /\ primaryConn = Conn("OK", FALSE, OldPrimary)
    /\ primary_node = OldPrimary
    /\ connection_retries = 0
    /\ localStandby = TRUE
    /\ inflight = 0
    /\ tickLog = <<>>
    /\ busyAtStart = FALSE
    /\ fo = NoElection
    /\ peers = <<>>
    /\ cluster = <<>>
    /\ sig = NoSignal
    /\ wal = NoWal
    /\ reg = NoReg
    /\ conv = NoConv


electionVars == <<fo, peers>>

Exit(status) ==
    /\ pc' = "done"
    /\ exitStatus' = status

-----------------------------------------------------------------------------
(* MonitorCheck / MonitorExecute *)

\* MonitorCheck(): sleep(3) is over, MonitorExecute() is entered.
TickStart ==
    /\ pc = "sleep"
    /\ pc' = "retry"
    /\ connection_retries' = 0
    /\ tickLog' = <<>>
    /\ busyAtStart' = (PQisBusy(primaryConn) = 1)
    /\ fo' = NoElection
    /\ peers' = <<>>
    /\ wal' = [wal EXCEPT !.last_wal_primary_location = 0,
                          !.last_wal_standby_received = 0,
                          !.last_wal_standby_applied = 0]
    /\ UNCHANGED <<exitStatus, failover, myLocalConn, primaryConn, primary_node,
                   localStandby, inflight, cluster, sig, reg, conv>>

\* One pass of "for (connection_retries = 0; connection_retries < attempts; ...)".
RetryLoopUpTo(attempts) ==
    /\ pc = "retry"
    /\ IF connection_retries < attempts
          /\ PQstatus(primaryConn) # "CONNECTION_OK"
       THEN \E ok \in BOOLEAN :
               LET got == PQreset(primaryConn, ok)
               IN  /\ primaryConn' = got
                   /\ inflight' = 0
                   /\ connection_retries' = connection_retries + 1
                   /\ tickLog' = Log(IF PQstatus(got) = "CONNECTION_OK"
                                     THEN "reset_ok" ELSE "reset_bad")
                   /\ pc' = "retry"
       ELSE /\ pc' = "lost"
            /\ UNCHANGED <<primaryConn, inflight, connection_retries, tickLog>>
    /\ UNCHANGED <<exitStatus, failover, myLocalConn, primary_node, localStandby,
                   busyAtStart, fo, peers, cluster,
                   sig, wal, reg, conv>>

\* The loop giving up one attempt early.
RetryLoop_OffByOne == RetryLoopUpTo(ReconnectAttempts - 1)

\* "for (connection_retries = 0; connection_retries < 15; connection_retries++)"
RetryLoop == RetryLoopUpTo(ReconnectAttempts)

\* "if (PQstatus(primaryConn) != CONNECTION_OK)" after the loop: the choice
\* between manual re-discovery and do_failover().
Supervisor ==
    /\ pc = "lost"
    /\ IF PQstatus(primaryConn) # "CONNECTION_OK"
       THEN IF failover = "MANUAL_FAILOVER"
            THEN /\ pc' = "manual"
                 /\ connection_retries' = 0
                 /\ tickLog' = Log("supervisor")
            ELSE IF failover = "AUTOMATIC_FAILOVER"
            THEN /\ pc' = "fo_local"
                 /\ tickLog' = Log("supervisor")
                 /\ UNCHANGED connection_retries
            ELSE /\ pc' = "role"
                 /\ UNCHANGED <<connection_retries, tickLog>>
       ELSE /\ pc' = "role"
            /\ UNCHANGED <<connection_retries, tickLog>>
    /\ UNCHANGED <<exitStatus, failover, myLocalConn, primaryConn, primary_node,
                   localStandby, inflight, busyAtStart, fo, peers, cluster,
                   sig, wal, reg, conv>>

\* One pass of "for (connection_retries = 0; connection_retries < attempts; ...)"
\* of the manual re-discovery and the check after it.
ManualLoopUpTo(attempts) ==
    /\ pc = "manual"
    /\ IF connection_retries < attempts
       THEN \E found \in BOOLEAN, node \in PeerIds \cup {OldPrimary} :
               LET got == getMasterConnection(found, node)
               IN  /\ primaryConn' = got.conn
                   /\ primary_node' = got.master_id
                   /\ inflight' = 0
                   /\ IF PQstatus(got.conn) = "CONNECTION_OK"
                      THEN /\ tickLog' = Log("discover_ok")
                           /\ pc' = "role"
                           /\ UNCHANGED connection_retries
                      ELSE /\ tickLog' = Log("discover_fail")
                           /\ pc' = "manual"
                           /\ connection_retries' = connection_retries + 1
                   /\ UNCHANGED exitStatus
       ELSE /\ Exit("ERR_DB_CON")
            /\ UNCHANGED <<primaryConn, primary_node, inflight, tickLog,
                           connection_retries>>
    /\ UNCHANGED <<failover, myLocalConn, localStandby, busyAtStart, fo, peers,
                   cluster,
                   sig, wal, reg, conv>>

\* The re-discovery trying once more than it should.
ManualLoop_OffByOne == ManualLoopUpTo(ManualAttempts + 1)

\* "for (connection_retries = 0; connection_retries < 6; connection_retries++)"
ManualLoop == ManualLoopUpTo(ManualAttempts)

\* The role check that lets a promoted node go on with the tick.
RoleCheck_NoExit ==
    /\ pc = "role"
    /\ pc' = "cancel"
    /\ tickLog' = Log("is_standby")
    /\ UNCHANGED <<exitStatus, myLocalConn, primaryConn, inflight, failover,
                   primary_node, connection_retries, localStandby, busyAtStart,
                   fo, peers, cluster,
                   sig, wal, reg, conv>>

\* "if (!is_standby(myLocalConn))": CloseConnections() and exit(ERR_PROMOTED).
RoleCheck ==
    /\ pc = "role"
    /\ IF ~is_standby(myLocalConn)
       THEN \E ok \in BOOLEAN :
               /\ IF PQisBusy(primaryConn) = 1
                  THEN /\ inflight' = CancelQuery(inflight, ok)
                       /\ tickLog' = Log("is_standby") \o CancelLog(ok)
                  ELSE /\ UNCHANGED inflight
                       /\ tickLog' = Log("is_standby")
               /\ myLocalConn' = PQfinish(myLocalConn)
               /\ primaryConn' = IF primaryConn.st # "NULL"
                                 THEN PQfinish(primaryConn) ELSE primaryConn
               /\ Exit("ERR_PROMOTED")
       ELSE /\ pc' = "cancel"
            /\ tickLog' = Log("is_standby")
            /\ UNCHANGED <<exitStatus, myLocalConn, primaryConn, inflight>>
    /\ UNCHANGED <<failover, primary_node, connection_retries, localStandby,
                   busyAtStart, fo, peers, cluster,
                   sig, wal, reg, conv>>

\* The tick going on to its queries without the cancel.
CancelStep_Skipped ==
    /\ pc = "cancel"
    /\ pc' = "sample_local"
    /\ UNCHANGED <<exitStatus, failover, myLocalConn, primaryConn, primary_node,
                   connection_retries, localStandby, inflight, tickLog,
                   busyAtStart, fo, peers, cluster,
                   sig, wal, reg, conv>>

\* "if (PQisBusy(primaryConn) == 1) CancelQuery();"
CancelStep ==
    /\ pc = "cancel"
    /\ IF PQisBusy(primaryConn) = 1
       THEN \E ok \in BOOLEAN :
               /\ inflight' = CancelQuery(inflight, ok)
               /\ tickLog' = tickLog \o CancelLog(ok)
       ELSE UNCHANGED <<inflight, tickLog>>
    /\ pc' = "sample_local"
    /\ UNCHANGED <<exitStatus, failover, myLocalConn, primaryConn, primary_node,
                   connection_retries, localStandby, busyAtStart, fo, peers, cluster,
                   sig, wal, reg, conv>>

\* The local query with a failure that does not return from the tick.
SampleLocal_NoReturn ==
    /\ pc = "sample_local"
    /\ \E ok \in BOOLEAN :
          /\ pc' = "sample_primary"
          /\ tickLog' = IF ok THEN Log("q_local")
                        ELSE Log("q_local") \o <<"q_local_failed">>
          /\ wal' = IF ok
                    THEN [wal EXCEPT !.last_wal_standby_received = wal.receive,
                                     !.last_wal_standby_applied = wal.apply]
                    ELSE wal
    /\ UNCHANGED <<exitStatus, failover, myLocalConn, primaryConn, primary_node,
                   connection_retries, localStandby, inflight, busyAtStart, fo,
                   peers, cluster, sig, reg, conv>>

\* "Get local xlog info": PQexec(myLocalConn, ...); a failure returns.
SampleLocal ==
    /\ pc = "sample_local"
    /\ \E ok \in BOOLEAN :
          IF ok
          THEN /\ pc' = "sample_primary"
               /\ tickLog' = Log("q_local")
               /\ wal' = [wal EXCEPT !.last_wal_standby_received = wal.receive,
                                     !.last_wal_standby_applied = wal.apply]
          ELSE /\ pc' = "sleep"
               /\ tickLog' = Log("q_local") \o <<"q_local_failed">>
               /\ UNCHANGED wal
    /\ UNCHANGED <<exitStatus, failover, myLocalConn, primaryConn, primary_node,
                   connection_retries, localStandby, inflight, busyAtStart, fo,
                   peers, cluster, sig, reg, conv>>

\* "Get primary xlog info": PQexec(primaryConn, ...); a failure returns.
SamplePrimary ==
    /\ pc = "sample_primary"
    /\ \E outcome \in {"ok", "error", "lost"} :
          LET got == PQexecPrimary(primaryConn, inflight, outcome)
          IN  /\ primaryConn' = got.conn
              /\ inflight' = got.inflight
              /\ IF got.tuples_ok
                 THEN /\ pc' = "insert"
                      /\ tickLog' = Log("q_primary")
                      /\ wal' = [wal EXCEPT !.last_wal_primary_location = wal.primary]
                 ELSE /\ pc' = "sleep"
                      /\ tickLog' = Log("q_primary") \o <<"q_primary_failed">>
                      /\ UNCHANGED wal
    /\ UNCHANGED <<exitStatus, failover, myLocalConn, primary_node,
                   connection_retries, localStandby, busyAtStart, fo, peers, cluster,
                   sig, reg, conv>>

\* The lag is computed and the insert sent with PQsendQuery; the result is
\* not read.
SendInsert ==
    /\ pc = "insert"
    /\ \E outcome \in {"sent", "refused", "lost"}, ub \in {"wrap", "trap"} :
          LET lsn_primary ==
                  walLocationToBytes(LagText(wal.last_wal_primary_location), ub)
              lsn_standby_received ==
                  walLocationToBytes(LagText(wal.last_wal_standby_received), ub)
              lsn_standby_applied ==
                  walLocationToBytes(LagText(wal.last_wal_standby_applied), ub)
              got == PQsendQuery(primaryConn, inflight, outcome)
          IN  IF \/ lsn_primary.trapped
                 \/ lsn_standby_received.trapped
                 \/ lsn_standby_applied.trapped
              THEN /\ Exit("SIGABRT")
                   /\ UNCHANGED <<primaryConn, inflight, tickLog, wal>>
              ELSE /\ primaryConn' = got.conn
                   /\ inflight' = got.inflight
                   /\ tickLog' = Log("insert")
                   /\ pc' = "sleep"
                   /\ UNCHANGED exitStatus
                   /\ wal' = IF got.ret = 1
                             THEN [wal EXCEPT !.recorded =
                                     [sent |-> TRUE,
                                      behind_receive |->
                                          Sub64(lsn_primary.bytes,
                                                lsn_standby_received.bytes),
                                      behind_apply |->
                                          Sub64(lsn_standby_received.bytes,
                                                lsn_standby_applied.bytes)]]
                             ELSE wal
    /\ UNCHANGED <<failover, myLocalConn, primary_node, connection_retries,
                   localStandby, busyAtStart, fo, peers, cluster, sig, reg, conv>>

-----------------------------------------------------------------------------
(* The databases *)

\* The primary finishes an insert the daemon sent.
PrimaryCompletes ==
    /\ pc # "done"
    /\ inflight > 0
    /\ inflight' = inflight - 1
    /\ UNCHANGED <<pc, exitStatus, failover, myLocalConn, primaryConn, primary_node,
                   connection_retries, localStandby, tickLog, busyAtStart, fo,
                   peers, cluster,
                   sig, wal, reg, conv>>

\* Somebody promotes the local node while the daemon sleeps (between ticks or
\* between reconnect attempts).
PromotedOutOfBand ==
    /\ pc \in {"sleep", "retry"}
    /\ localStandby
    /\ localStandby' = FALSE
    /\ UNCHANGED <<pc, exitStatus, failover, myLocalConn, primaryConn, primary_node,
                   connection_retries, inflight, tickLog, busyAtStart, fo, peers,
                   cluster,
                   sig, wal, reg, conv>>


-----------------------------------------------------------------------------
(* do_failover() *)

\* "first we get info about this node, and update shared memory": the replay
\* location is read and published; if it cannot be read 0/0 is published and
\* the daemon exits.  published is the position handed to
\* pg_update_standby_location(); pub tells whether that statement went
\* through (its result is PQclear'ed unread), so peers see the position only
\* if pub_ok.
FoLocal(ok, text, pub) ==
    /\ pc = "fo_local"
    /\ IF ok
       THEN /\ fo' = [NoElection EXCEPT !.ran = TRUE, !.local = text,
                                        !.published = text, !.pub_ok = pub]
            /\ pc' = "fo_list"
            /\ UNCHANGED exitStatus
       ELSE /\ fo' = [NoElection EXCEPT !.ran = TRUE,
                                        !.published = WellFormed(ZeroLsn),
                                        !.pub_ok = pub]
            /\ Exit("ERR_DB_QUERY")
    /\ UNCHANGED <<failover, myLocalConn, primaryConn, primary_node,
                   connection_retries, localStandby, inflight, tickLog,
                   busyAtStart, peers, cluster,
                   sig, wal, reg, conv>>

\* "get a list of standby nodes, ignoring myself"
FoList(ok, ps) ==
    /\ pc = "fo_list"
    /\ IF ok
       THEN /\ peers' = ps
            /\ pc' = "fo_probe"
            /\ UNCHANGED <<exitStatus, myLocalConn>>
       ELSE /\ myLocalConn' = PQfinish(myLocalConn)
            /\ Exit("ERR_BAD_QUERY")
            /\ UNCHANGED peers
    /\ UNCHANGED <<failover, primaryConn, primary_node, connection_retries,
                   localStandby, inflight, tickLog, busyAtStart, fo, cluster,
                   sig, wal, reg, conv>>

\* "ask for the locations of other nodes": the whole loop, then
\* PQfinish(myLocalConn), total_nodes += i, numelm = i.  uxlogid/uxrecoff start
\* with whatever the stack holds (junk).
FoProbe ==
    /\ pc = "fo_probe"
    /\ \E junk \in LSNs, nullFaults \in BOOLEAN :
          LET st == ProbeLoop([nodes |-> <<>>, visible_nodes |-> 1, ux |-> junk,
                               res2 |-> "unset", crashed |-> FALSE, i |-> 0],
                              1, peers, nullFaults)
          IN  IF st.crashed
              THEN /\ fo' = [fo EXCEPT !.visible_nodes = st.visible_nodes,
                                       !.nodes = st.nodes, !.res2 = st.res2]
                   /\ Exit("SIGSEGV")
                   /\ UNCHANGED myLocalConn
              ELSE /\ fo' = [fo EXCEPT !.visible_nodes = st.visible_nodes,
                                       !.nodes = st.nodes, !.res2 = st.res2,
                                       !.total_nodes = @ + st.i,
                                       !.numelm = st.i]
                   /\ myLocalConn' = PQfinish(myLocalConn)
                   /\ pc' = "fo_decide"
                   /\ UNCHANGED exitStatus
    /\ UNCHANGED <<failover, primaryConn, primary_node, connection_retries,
                   localStandby, inflight, tickLog, busyAtStart, peers, cluster,
                   sig, wal, reg, conv>>

\* The quorum gate, the seeding of best_candidate, the selection loop and
\* the dispatch.  The seed is read through res2, which by now was PQclear'ed
\* or never set: the read faults or gives some position (seed).
FoDecide ==
    /\ pc = "fo_decide"
    /\ IF QuorumFails(fo.visible_nodes, fo.total_nodes)
       THEN /\ Exit("ERR_FAILOVER_FAIL")
            /\ UNCHANGED <<fo, tickLog, localStandby>>
       ELSE \/ /\ Exit("SIGSEGV")
               /\ UNCHANGED <<fo, tickLog, localStandby>>
            \/ \E seed \in LSNs, junk \in GarbageNodes :
                  LET best == SelectLoop([nodeId |-> myLocalId,
                                          xlog_location |-> seed,
                                          is_ready |-> TRUE],
                                         0, fo.nodes, junk)
                  IN  /\ fo' = [fo EXCEPT !.best_nodeId = best.nodeId,
                                           !.reads = SelectReads(fo.numelm)]
                      /\ pc' = "fo_reconnect"
                      /\ UNCHANGED exitStatus
                      /\ IF best.nodeId = myLocalId
                         THEN /\ tickLog' = Log("promote")
                              /\ \E done \in BOOLEAN :
                                    localStandby' = (localStandby /\ ~done)
                         ELSE /\ tickLog' = Log("follow")
                              /\ UNCHANGED localStandby
    /\ UNCHANGED <<failover, myLocalConn, primaryConn, primary_node,
                   connection_retries, inflight, busyAtStart, peers, cluster,
                   sig, wal, reg, conv>>

\* "and reconnect to the local database"; do_failover() returns.
FoReconnect ==
    /\ pc = "fo_reconnect"
    /\ myLocalConn' = Conn("OK", FALSE, local_options_node)
    /\ fo' = NoElection
    /\ peers' = <<>>
    /\ pc' = "role"
    /\ UNCHANGED <<exitStatus, failover, primaryConn, primary_node,
                   connection_retries, localStandby, inflight, tickLog,
                   busyAtStart, cluster,
                   sig, wal, reg, conv>>

do_failover ==
    \/ \E ok \in BOOLEAN, l \in LSNs, pub \in BOOLEAN :
          FoLocal(ok, WellFormed(l), pub)
    \/ \E ok \in BOOLEAN, ps \in PeerLists : FoList(ok, ps)
    \/ FoProbe
    \/ FoDecide
    \/ FoReconnect

-----------------------------------------------------------------------------
Next ==
    \/ TickStart
    \/ RetryLoop
    \/ Supervisor
    \/ ManualLoop
    \/ do_failover
    \/ RoleCheck
    \/ CancelStep
    \/ SampleLocal
    \/ SamplePrimary
    \/ SendInsert
    \/ PrimaryCompletes
    \/ PromotedOutOfBand

Spec == Init /\ [][Next]_vars


-----------------------------------------------------------------------------
(* The survivors of a lost primary, each running do_failover() *)

Survivors == 1 .. NumSurvivors

\* What survivor t's peer listing holds: every other survivor, reachable,
\* with the position it published.
OtherSurvivors(t) ==
    [k \in 1 .. (NumSurvivors - 1) |->
        LET j == IF k < t THEN k ELSE k + 1
        IN  [id |-> j, conn |-> TRUE, query |-> TRUE,
             text |-> WellFormed(cluster.pos[j])]]

\* The daemon of a survivor when MonitorExecute() calls do_failover(): the 15
\* resets have failed.
AtElection ==
    /\ pc = "fo_local"
    /\ exitStatus = "none"
    /\ myLocalConn = Conn("OK", FALSE, local_options_node)
    /\ primaryConn = Conn("BAD", FALSE, OldPrimary)
    /\ primary_node = OldPrimary
    /\ connection_retries = ReconnectAttempts
    /\ localStandby = TRUE
    /\ inflight = 0
    /\ tickLog = [j \in 1 .. ReconnectAttempts |-> "reset_bad"] \o <<"supervisor">>
    /\ busyAtStart = FALSE
    /\ fo = NoElection
    /\ peers = <<>>

\* do_failover() alone, from the moment MonitorExecute() calls it.
ElectionInit ==
    /\ failover = "AUTOMATIC_FAILOVER"
    /\ AtElection
    /\ cluster = <<>>
    /\ sig = NoSignal
    /\ wal = NoWal
    /\ reg = NoReg
    /\ conv = NoConv

ElectionNext ==
    \/ \E ok \in BOOLEAN, l \in LSNs, pub \in BOOLEAN :
          FoLocal(ok, WellFormed(l), pub)
    \/ \E ok \in BOOLEAN, ps \in ElectionPeerLists : FoList(ok, ps)
    \/ FoProbe
    \/ FoDecide
    \/ FoReconnect

SpecElection == ElectionInit /\ [][ElectionNext]_vars

ClusterInit ==
    /\ failover = "AUTOMATIC_FAILOVER"
    /\ AtElection
    /\ cluster \in [pos : [Survivors -> LSNs], turn : {1}, cmd : {<<>>}]
    /\ sig = NoSignal
    /\ wal = NoWal
    /\ reg = NoReg
    /\ conv = NoConv

\* The election of the survivor whose turn it is.
ClusterElect ==
    /\ cluster.turn \in Survivors
    /\ \/ FoLocal(TRUE, WellFormed(cluster.pos[cluster.turn]), TRUE)
       \/ FoList(TRUE, OtherSurvivors(cluster.turn))
       \/ FoProbe
       \/ FoDecide

\* The command the survivor dispatched is noted and the next survivor's
\* daemon runs its election.
ClusterRecord ==
    /\ cluster.turn \in Survivors
    /\ pc \in {"fo_reconnect", "done"}
    /\ cluster' = [cluster EXCEPT
                     !.turn = @ + 1,
                     !.cmd = Append(@, IF \E j \in 1 .. Len(tickLog) : tickLog[j] = "promote"
                                       THEN "promote"
                                       ELSE IF \E j \in 1 .. Len(tickLog) : tickLog[j] = "follow"
                                       THEN "follow"
                                       ELSE "none")]
    /\ pc' = "fo_local"
    /\ exitStatus' = "none"
    /\ myLocalConn' = Conn("OK", FALSE, local_options_node)
    /\ localStandby' = TRUE
    /\ tickLog' = [j \in 1 .. ReconnectAttempts |-> "reset_bad"] \o <<"supervisor">>
    /\ fo' = NoElection
    /\ peers' = <<>>
    /\ UNCHANGED <<failover, primaryConn, primary_node, connection_retries,
                   inflight, busyAtStart, sig, wal, reg, conv>>

ClusterNext ==
    \/ ClusterElect
    \/ ClusterRecord

SpecCluster == ClusterInit /\ [][ClusterNext]_vars


-----------------------------------------------------------------------------
(* SIGINT *)

\* The handles the daemon's next operation at position p works on.
UsedAt(p) ==
    CASE p \in {"retry", "lost", "cancel", "sample_primary", "insert"} -> {primaryConn}
      [] p \in {"manual", "sample_local", "fo_local", "fo_list", "fo_probe"} -> {myLocalConn}
      [] p = "role" -> {myLocalConn, primaryConn}
      [] OTHER -> {}

\* The daemon is about to work on a handle that PQfinish() has freed.
UsesClosedHandle == \E c \in UsedAt(pc) : c.st = "FREED"

\* handle_sigint(): CloseConnections(), then the handler returns to the code
\* it interrupted.  PQisBusy() or PQfinish() on a handle that was freed
\* already either faults or goes through.
handle_sigint ==
    /\ pc # "done"
    /\ sig.delivered < MaxSignals
    /\ \E ok \in BOOLEAN, fault \in BOOLEAN :
          LET stale == myLocalConn.st = "FREED" \/ primaryConn.st = "FREED"
          IN  /\ sig' = [delivered |-> sig.delivered + 1,
                         double_close |-> sig.double_close \/ stale,
                         use_after_close |-> sig.use_after_close
                                                \/ primaryConn.st = "FREED"]
              /\ IF PQisBusy(primaryConn) = 1
                 THEN /\ inflight' = CancelQuery(inflight, ok)
                      /\ tickLog' = tickLog \o CancelLog(ok)
                 ELSE UNCHANGED <<inflight, tickLog>>
              /\ myLocalConn' = IF myLocalConn.st # "NULL"
                                THEN PQfinish(myLocalConn) ELSE myLocalConn
              /\ primaryConn' = IF primaryConn.st # "NULL"
                                THEN PQfinish(primaryConn) ELSE primaryConn
              /\ IF stale /\ fault
                 THEN Exit("SIGSEGV")
                 ELSE UNCHANGED <<pc, exitStatus>>
    /\ UNCHANGED <<failover, primary_node, connection_retries, localStandby,
                   busyAtStart, fo, peers, cluster, wal, reg, conv>>

\* The operation on a freed handle faults.
ClosedHandleFault ==
    /\ pc # "done"
    /\ UsesClosedHandle
    /\ Exit("SIGSEGV")
    /\ UNCHANGED <<failover, myLocalConn, primaryConn, primary_node,
                   connection_retries, localStandby, inflight, tickLog,
                   busyAtStart, fo, peers, cluster, sig, wal, reg, conv>>

SignalNext ==
    \/ Next
    \/ handle_sigint
    \/ ClosedHandleFault

\* The daemon with interrupts delivered at any point of the loop.
SpecSignal == Init /\ [][SignalNext]_vars

-----------------------------------------------------------------------------
(* walLocationToBytes() on its own *)

BytesInit ==
    /\ failover = "MANUAL_FAILOVER"
    /\ pc = "sleep"
    /\ exitStatus = "none"
    /\ myLocalConn = Conn("OK", FALSE, local_options_node)
    /\ primaryConn = Conn("OK", FALSE, OldPrimary)
    /\ primary_node = OldPrimary
    /\ connection_retries = 0
    /\ localStandby = TRUE
    /\ inflight = 0
    /\ tickLog = <<>>
    /\ busyAtStart = FALSE
    /\ fo = NoElection
    /\ peers = <<>>
    /\ cluster = <<>>
    /\ sig = NoSignal
    /\ wal = NoWal
    /\ reg = NoReg
    /\ conv \in [text : WideTexts, done : {FALSE},
                  result : {walLocationToBytes([n |-> 0], "wrap")}]

\* The call returns (or traps).
BytesCall ==
    /\ ~conv.done
    /\ \E ub \in {"wrap", "trap"} :
          conv' = [conv EXCEPT !.done = TRUE,
                               !.result = walLocationToBytes(conv.text, ub)]
    /\ UNCHANGED <<pc, exitStatus, failover, myLocalConn, primaryConn, primary_node,
                   connection_retries, localStandby, inflight, tickLog,
                   busyAtStart, fo, peers, cluster, sig, wal, reg>>

\* The next call, with another text.
BytesNextCall ==
    /\ conv.done
    /\ \E t \in WideTexts :
          conv' = [text |-> t, done |-> FALSE,
                   result |-> walLocationToBytes([n |-> 0], "wrap")]
    /\ UNCHANGED <<pc, exitStatus, failover, myLocalConn, primaryConn, primary_node,
                   connection_retries, localStandby, inflight, tickLog,
                   busyAtStart, fo, peers, cluster, sig, wal, reg>>

BytesNext ==
    \/ BytesCall
    \/ BytesNextCall

SpecBytes == BytesInit /\ [][BytesNext]_vars

-----------------------------------------------------------------------------
(* The tick with the databases' log positions moving *)

LagInit ==
    /\ failover = "MANUAL_FAILOVER"
    /\ pc = "sleep"
    /\ exitStatus = "none"
    /\ myLocalConn = Conn("OK", FALSE, local_options_node)
    /\ primaryConn = Conn("OK", FALSE, OldPrimary)
    /\ primary_node = OldPrimary
    /\ connection_retries = 0
    /\ localStandby = TRUE
    /\ inflight = 0
    /\ tickLog = <<>>
    /\ busyAtStart = FALSE
    /\ fo = NoElection
    /\ peers = <<>>
    /\ cluster = <<>>
    /\ sig = NoSignal
    /\ wal = NoWal
    /\ reg = NoReg
    /\ conv = NoConv

\* The primary writes log, the standby receives or replays some: no position
\* goes back, the standby receives nothing the primary has not written and
\* replays nothing it has not received.
WalAdvance ==
    /\ pc # "done"
    /\ \/ /\ wal.primary < Len(LagPositions)
          /\ wal' = [wal EXCEPT !.primary = @ + 1]
       \/ /\ wal.receive < wal.primary
          /\ wal' = [wal EXCEPT !.receive = @ + 1]
       \/ /\ wal.apply < wal.receive
          /\ wal' = [wal EXCEPT !.apply = @ + 1]
    /\ UNCHANGED <<pc, exitStatus, failover, myLocalConn, primaryConn, primary_node,
                   connection_retries, localStandby, inflight, tickLog,
                   busyAtStart, fo, peers, cluster, sig, reg, conv>>

LagNext ==
    \/ TickStart
    \/ RetryLoop
    \/ Supervisor
    \/ RoleCheck
    \/ CancelStep
    \/ SampleLocal
    \/ SamplePrimary
    \/ SendInsert
    \/ PrimaryCompletes
    \/ WalAdvance

SpecLag == LagInit /\ [][LagNext]_vars

-----------------------------------------------------------------------------
(* checkNodeConfiguration(): the daemon registers its node at startup *)

\* The rows of repl_nodes for (local_options.node, cluster_name): on the
\* primary and as replicated to the local standby so far.  unique_id tells
\* whether the table rejects a second row for the same id; the daemon
\* neither creates the table nor looks at its constraints.
RegInit ==
    /\ failover = "MANUAL_FAILOVER"
    /\ pc = "register"
    /\ exitStatus = "none"
    /\ myLocalConn = Conn("OK", FALSE, local_options_node)
    /\ primaryConn = Conn("OK", FALSE, OldPrimary)
    /\ primary_node = OldPrimary
    /\ connection_retries = 0
    /\ localStandby = TRUE
    /\ inflight = 0
    /\ tickLog = <<>>
    /\ busyAtStart = FALSE
    /\ fo = NoElection
    /\ peers = <<>>
    /\ cluster = <<>>
    /\ sig = NoSignal
    /\ wal = NoWal
    /\ conv = NoConv
    /\ reg \in {r \in [primary_rows : 0 .. 1, standby_rows : 0 .. 1,
                        unique_id : BOOLEAN, runs : {0}, inserts : {0},
                        failed : {FALSE}] :
                    r.standby_rows <= r.primary_rows}

\* What "INSERT INTO repl_nodes VALUES (node, cluster, conninfo)" leaves on
\* the primary.
InsertNode(rows, unique_id) == IF unique_id /\ rows > 0 THEN rows ELSE rows + 1

\* One run of checkNodeConfiguration(): the row is looked for on the local
\* standby and, when it is not there, inserted on the primary; only a NULL
\* result of the insert is an error.  When the row was missing res is
\* PQclear'ed twice (627 and 646), which faults or goes through.
checkNodeConfiguration ==
    /\ pc = "register"
    /\ reg.runs < MaxRuns
    /\ \E select_ok \in BOOLEAN, insert \in {"ok", "error", "null"}, fault \in BOOLEAN :
          IF ~select_ok \/ (reg.standby_rows = 0 /\ insert = "null")
          THEN /\ myLocalConn' = PQfinish(myLocalConn)
               /\ primaryConn' = PQfinish(primaryConn)
               /\ reg' = [reg EXCEPT !.failed = TRUE]
               /\ Exit("ERR_BAD_CONFIG")
          ELSE IF reg.standby_rows = 0
          THEN /\ reg' = [reg EXCEPT
                            !.primary_rows = IF insert = "ok"
                                             THEN InsertNode(@, reg.unique_id)
                                             ELSE @,
                            !.inserts = @ + 1,
                            !.failed = @ \/ insert = "error",
                            !.runs = @ + 1]
               /\ IF fault
                  THEN Exit("SIGABRT")
                  ELSE UNCHANGED <<pc, exitStatus>>
               /\ UNCHANGED <<myLocalConn, primaryConn>>
          ELSE /\ reg' = [reg EXCEPT !.runs = @ + 1]
               /\ UNCHANGED <<pc, exitStatus, myLocalConn, primaryConn>>
    /\ UNCHANGED <<failover, primary_node, connection_retries, localStandby,
                   inflight, tickLog, busyAtStart, fo, peers, cluster, sig, wal,
                   conv>>

\* The daemon is started again after a run that ended in a fault.
Restart ==
    /\ pc = "done"
    /\ exitStatus = "SIGABRT"
    /\ reg.runs < MaxRuns
    /\ pc' = "register"
    /\ exitStatus' = "none"
    /\ UNCHANGED <<failover, myLocalConn, primaryConn, primary_node,
                   connection_retries, localStandby, inflight, tickLog,
                   busyAtStart, fo, peers, cluster, sig, wal, reg, conv>>

\* The standby replays the primary's changes of repl_nodes.
Replicate ==
    /\ reg.standby_rows < reg.primary_rows
    /\ reg' = [reg EXCEPT !.standby_rows = reg.primary_rows]
    /\ UNCHANGED <<pc, exitStatus, failover, myLocalConn, primaryConn, primary_node,
                   connection_retries, localStandby, inflight, tickLog,
                   busyAtStart, fo, peers, cluster, sig, wal, conv>>

RegNext ==
    \/ checkNodeConfiguration
    \/ Restart
    \/ Replicate

SpecRegister == RegInit /\ [][RegNext]_vars

-----------------------------------------------------------------------------
(* The claims *)

Has(event) == \E j \in 1 .. Len(tickLog) : tickLog[j] = event

Count(seq, e) == Cardinality({j \in 1 .. Len(seq) : seq[j] = e})

\* The election's numbers as the claims define them, from the peers listed.
ListedTotal == 1 + Len(peers)
ListedVisible == 1 + NumReachable(peers)

\* The position a reachable peer reported, 0/0 when it does not parse.
PeerLsn(p) ==
    IF p.text.n = 2 THEN [xlogid |-> p.text.xlogid, xrecoff |-> p.text.xrecoff]
    ELSE ZeroLsn

LocalLsn == [xlogid |-> fo.local.xlogid, xrecoff |-> fo.local.xrecoff]

\* do_failover() has ended, by a dispatch or by leaving the process.
ElectionEnded == fo.ran /\ pc \in {"fo_reconnect", "done"}

\* C1: in every election where visible_nodes < total_nodes / 2 (integer
\* division; total = 1 + listed peers, visible = 1 + peers whose probe
\* succeeded) neither command is invoked and the daemon exits with
\* ERR_FAILOVER_FAIL.
C1_QuorumGate ==
    (ElectionEnded /\ ListedVisible < (ListedTotal \div 2))
        => /\ exitStatus = "ERR_FAILOVER_FAIL"
           /\ ~Has("promote")
           /\ ~Has("follow")

\* C2: whenever an election invokes the promote command the local node saw a
\* majority of the known nodes: 2 * visible_nodes > total_nodes.
C2_MinorityDoesNotPromote ==
    (fo.ran /\ Has("promote")) => 2 * ListedVisible > ListedTotal

\* C3: an election that passes the quorum gate dispatches exactly one
\* command, promote if and only if no reachable peer reported a position
\* strictly greater than the local applied position, otherwise follow.
C3_WinnerSelection ==
    (fo.ran /\ pc = "fo_reconnect")
        => LET beaten == \E k \in 1 .. Len(peers) :
                            /\ Reachable(peers[k])
                            /\ XLByteLT(LocalLsn, PeerLsn(peers[k]))
           IN  /\ Has("promote") <=> ~beaten
               /\ Has("follow") <=> beaten

\* C4: when every survivor of a lost primary runs the election, all mutually
\* reachable and seeing the same published positions, exactly one invokes
\* promote and every other one invokes follow.
C4_SingleWinner ==
    (cluster.turn > NumSurvivors)
        => /\ Count(cluster.cmd, "promote") = 1
           /\ Count(cluster.cmd, "follow") = NumSurvivors - 1

\* C5: at most one insert of the daemon is outstanding on the primary
\* connection, also when the primary does not answer for several ticks and
\* when the cancel request fails.
C5_PipelineDepth == inflight <= 1

\* C5 witness: a tick whose cancel failed has sent its own insert.
C5_Witness ==
    /\ pc = "sleep"
    /\ Has("cancel_failed")
    /\ tickLog[Len(tickLog)] = "insert"
    /\ primaryConn.busy
    /\ inflight = 1

\* C6: in a tick that finds the previous insert still in progress on the
\* primary connection, a cancel is issued before any new query of the tick on
\* that connection (the position query and the insert).
C6_CancelDiscipline ==
    busyAtStart =>
        \A j \in 1 .. Len(tickLog) :
            tickLog[j] \in {"q_primary", "insert"}
                => \E i \in 1 .. (j - 1) : tickLog[i] = "cancel"

\* C6 witness: such a tick has cancelled, queried the primary and sent its insert.
C6_Witness ==
    /\ busyAtStart
    /\ pc = "sleep"
    /\ Has("cancel")
    /\ Has("q_primary")
    /\ tickLog[Len(tickLog)] = "insert"

\* C7: after an election that dispatched follow has returned and the tick is
\* over, the daemon holds an OK connection to the new primary and its node id.
C7_FollowsNewPrimary ==
    (pc = "sleep" /\ Has("follow"))
        => /\ PQstatus(primaryConn) = "CONNECTION_OK"
           /\ primary_node # OldPrimary

\* C8 as stated: a daemon that left with ERR_PROMOTED issued no cancel, no
\* sample query and no insert in that tick.
C8_NoCancelBeforeExit ==
    (exitStatus = "ERR_PROMOTED")
        => /\ ~Has("cancel")
           /\ ~Has("q_local")
           /\ ~Has("q_primary")
           /\ ~Has("insert")

\* C8 amended: a tick that reaches the role check with the local node no
\* longer a standby closes both connections and exits with ERR_PROMOTED
\* without a sample query or an insert in that tick; the only cancel it may
\* issue is the one of the cleanup, after the role check.
C8_RoleChangeIsTerminal ==
    [][(pc = "role" /\ ~localStandby /\ pc' # "role")
          => /\ pc' = "done"
             /\ exitStatus' = "ERR_PROMOTED"
             /\ myLocalConn'.st = "FREED"
             /\ primaryConn'.st = "FREED"
             /\ \A j \in 1 .. Len(tickLog') :
                   /\ tickLog'[j] \notin {"q_local", "q_primary", "insert"}
                   /\ tickLog'[j] = "cancel"
                         => \E i \in 1 .. (j - 1) : tickLog'[i] = "is_standby"]_vars

\* C8 witness: the daemon left with ERR_PROMOTED and its cleanup cancelled
\* the insert in progress.
C8_Witness ==
    /\ exitStatus = "ERR_PROMOTED"
    /\ Has("cancel")
    /\ myLocalConn.st = "FREED"
    /\ primaryConn.st = "FREED"

Resets == Count(tickLog, "reset_ok") + Count(tickLog, "reset_bad")

\* C9: a tick makes at most 15 resets, and the supervisor is entered only
\* after 15 resets that all left the connection not OK; a connection that is
\* OK at the first check or after some reset takes the tick to the role check.
C9_BoundedReconnect ==
    /\ Resets <= 15
    /\ Has("supervisor")
          => /\ Count(tickLog, "reset_bad") = 15
             /\ ~Has("reset_ok")
    /\ (pc = "role" /\ ~Has("supervisor"))
          => \/ Resets = 0
             \/ tickLog[Resets] = "reset_ok"

\* C9 witness: the supervisor was entered after 15 failed resets.
C9_Witness ==
    /\ Has("supervisor")
    /\ Count(tickLog, "reset_bad") = 15
    /\ pc \in {"manual", "fo_local"}

Discoveries == Count(tickLog, "discover_ok") + Count(tickLog, "discover_fail")

\* C10: under MANUAL_FAILOVER at most 6 re-discovery attempts are made; an
\* attempt that yields an OK connection ends the loop and the tick goes on
\* against that connection; 6 failed attempts end the daemon with ERR_DB_CON;
\* promote and follow are never invoked.
C10_ManualPolicy ==
    /\ Discoveries <= 6
    /\ Count(tickLog, "discover_ok") <= 1
    /\ \A j \in 1 .. Len(tickLog) :
          tickLog[j] = "discover_ok"
              => /\ \A i \in (j + 1) .. Len(tickLog) : tickLog[i] # "discover_fail"
                 /\ exitStatus \in {"none", "ERR_PROMOTED"}
                 /\ pc # "manual"
                 /\ primaryConn.node = primary_node
                 /\ (pc = "role" => PQstatus(primaryConn) = "CONNECTION_OK")
    /\ exitStatus = "ERR_DB_CON"
          <=> (pc = "done" /\ Count(tickLog, "discover_fail") = 6)
    /\ failover = "MANUAL_FAILOVER"
          => (~Has("promote") /\ ~Has("follow") /\ ~fo.ran)

\* C10 witness: after failed attempts a re-discovery succeeded and the same
\* tick sent its insert to the primary found.
C10_Witness ==
    /\ failover = "MANUAL_FAILOVER"
    /\ Has("discover_fail")
    /\ Has("discover_ok")
    /\ tickLog[Len(tickLog)] = "insert"
    /\ primaryConn.busy
    /\ primaryConn.node = primary_node

\* C11: once in the monitoring loop the daemon ends only by role change
\* (ERR_PROMOTED), exhausted manual re-discovery (ERR_DB_CON), quorum failure
\* (ERR_FAILOVER_FAIL) or interrupt (0); a failed query, in the tick or in the
\* election, does not end it.
C11_ExitStatuses ==
    exitStatus \in {"none", "ERR_PROMOTED", "ERR_DB_CON", "ERR_FAILOVER_FAIL", "0"}

\* C12: once an interrupt was delivered the cleanup has closed both
\* connections, no further tick is entered and the daemon ends with exit
\* code 0.
C12_InterruptEndsDaemon ==
    [][(sig.delivered > 0)
          => /\ ~(pc = "sleep" /\ pc' = "retry")
             /\ (pc' = "done" => exitStatus' = "0")]_vars

\* C19: no handle is closed twice and the daemon never works on a handle
\* after closing it, whatever the interrupts delivered.
C19_ConnectionLifetime ==
    /\ ~sig.double_close
    /\ ~sig.use_after_close
    /\ ~UsesClosedHandle

\* s * 0xFF000000 + o as a number: (s * 255 * 2^8) * 2^16 + o.
BytesOf(s, o) ==
    LET m == MulSmall(MulSmall(Wide(s), 255), 256)
    IN  Add(<<0, m[1], m[2], m[3], m[4]>>, Wide(o))

\* C15: for every well-formed text with segment id s and offset o the call
\* returns s * 0xFF000000 + o, with no overflow on the way and nothing cut
\* off; for a malformed text it returns 0.
C15_ByteOffset ==
    conv.done
        => IF conv.text.n = 2
           THEN /\ ~conv.result.overflow
                /\ ~conv.result.trapped
                /\ <<conv.result.bytes[1], conv.result.bytes[2],
                      conv.result.bytes[3], conv.result.bytes[4], 0>>
                       = BytesOf(conv.text.xlogid, conv.text.xrecoff)
           ELSE conv.result.bytes = Zero64

\* C13: with a primary that never rewinds, a standby that has received no
\* more than the primary wrote and replayed no more than it received, every
\* recorded sample has bytes_behind_receive >= 0 and bytes_behind_apply >= 0.
C13_LagNonNegative ==
    /\ exitStatus # "SIGABRT"
    /\ wal.recorded.sent
          => /\ ~PrintsNegative(wal.recorded.behind_receive)
             /\ ~PrintsNegative(wal.recorded.behind_apply)

\* C14: after two or more runs of the self-registration whose statements all
\* succeeded there is exactly one row for the node on the primary, also when
\* a later run came before the first run's insert reached the standby.
C14_IdempotentRegistration ==
    (reg.runs >= 2 /\ ~reg.failed) => reg.primary_rows = 1

\* C16: a step in which the local or the primary position query fails ends
\* the tick: the daemon goes to sleep without exiting, the tick has sent no
\* insert, and the local connection, the primary connection (same handle,
\* not closed) and the primary node id are what they were.
C16_FailedSampleSkipsTick ==
    [][(/\ Len(tickLog') > Len(tickLog)
        /\ tickLog'[Len(tickLog')] \in {"q_local_failed", "q_primary_failed"})
       => /\ pc' = "sleep"
          /\ exitStatus' = "none"
          /\ myLocalConn' = myLocalConn
          /\ primaryConn'.node = primaryConn.node
          /\ primaryConn'.st \notin {"FREED", "NULL"}
          /\ primary_node' = primary_node
          /\ \A j \in 1 .. Len(tickLog') : tickLog'[j] # "insert"]_vars

C16_Witness ==
    /\ pc = "sleep"
    /\ exitStatus = "none"
    /\ Len(tickLog) > 0
    /\ tickLog[Len(tickLog)] = "q_primary_failed"
    /\ Has("q_local")

\* C17: once the probe loop is over, the candidate entry of every reachable
\* peer whose reported location does not parse as two hex fields holds the
\* position 0/0.
C17_MalformedIsZero ==
    pc \in {"fo_decide", "fo_reconnect"} =>
        \A k \in 1 .. Len(peers) :
            (Reachable(peers[k]) /\ peers[k].text.n # 2) =>
                fo.nodes[k].xlog_location = ZeroLsn

\* C18: an election that could not read the local node's applied position
\* has made 0/0 the position peers see for this node and has not invoked
\* the promote command.
C18_NoPositionToContribute ==
    (fo.ran /\ exitStatus = "ERR_DB_QUERY") =>
        /\ fo.published = WellFormed(ZeroLsn)
        /\ fo.pub_ok
        /\ ~Has("promote")

\* C20: in an election that reached the selection, every candidate entry
\* the probe loop wrote has an index below the capacity of nodes[], and the
\* selection loop read only entries the probe loop wrote for a listed peer
\* (indices 0 .. number of peers - 1).
C20_CandidateAccesses ==
    pc = "fo_reconnect" =>
        /\ \A k \in 1 .. Len(fo.nodes) : k - 1 < NodesCapacity
        /\ fo.reads \subseteq 0 .. (Len(peers) - 1)

\* C21: the election dispatches the promote or the follow command only
\* while the local node is still a standby: a node that was promoted out of
\* band while the primary connection was down gets no command.
C21_NoDispatchWhenPromoted ==
    [][(/\ Len(tickLog') > Len(tickLog)
        /\ tickLog'[Len(tickLog')] \in {"promote", "follow"})
       => localStandby]_vars

====
